---- MODULE Spec2Model ----
(***************************************************************************)
(* Model of the control plane state importer (package importer):           *)
(* ControlPlaneStateImporter.Import, PreflightChecks, unarchive and        *)
(* waitForConditions.  The importer is one sequential flow; the live       *)
(* system, the archive reader and the caller's context are its             *)
(* environment, and every answer they can give is drawn with \E.           *)
(***************************************************************************)
EXTENDS Integers, Sequences, FiniteSets, TLC

(***************************************************************************)
(* Bounds of the model.                                                    *)
(***************************************************************************)
\* Calls of PreflightChecks / Import made on one importer.
MaxCalls == 2
\* Polls one waitForConditions call can make before its deadline has passed
\* (the code: 10 minutes of 5 second ticks).
MaxPolls == 2
\* Resources one List call returns.
MaxItems == 2

(***************************************************************************)
(* Program data.                                                           *)
(***************************************************************************)
baseResources ==
    << "namespaces", "configmaps", "secrets",
       "controllerconfigs.pkg.crossplane.io",
       "deploymentruntimeconfigs.pkg.crossplane.io",
       "storeconfigs.secrets.crossplane.io",
       "compositionrevisions.apiextensions.crossplane.io",
       "compositions.apiextensions.crossplane.io",
       "compositeresourcedefinitions.apiextensions.crossplane.io",
       "providers.pkg.crossplane.io",
       "functions.pkg.crossplane.io",
       "configurations.pkg.crossplane.io" >>

\* isBaseResource finding no group in the base set.
isBaseResource_Never(gr) == FALSE

isBaseResource(gr) == \E k \in 1..Len(baseResources) : baseResources[k] = gr

\* WaitSteps with the packages waited for before the definitions.
WaitSteps_PackagesFirst ==
    << [kind |-> "Provider",              conditions |-> <<"Installed", "Healthy">>],
       [kind |-> "CompositeResourceDefinition", conditions |-> <<"Established">>],
       [kind |-> "Function",              conditions |-> <<"Installed", "Healthy">>],
       [kind |-> "Configuration",         conditions |-> <<"Installed", "Healthy">>],
       [kind |-> "ProviderRevision",      conditions |-> <<"Healthy">>],
       [kind |-> "FunctionRevision",      conditions |-> <<"Healthy">>],
       [kind |-> "ConfigurationRevision", conditions |-> <<"Healthy">>] >>

\* The seven readiness waits of Import, in program order.
WaitSteps ==
    << [kind |-> "CompositeResourceDefinition", conditions |-> <<"Established">>],
       [kind |-> "Provider",              conditions |-> <<"Installed", "Healthy">>],
       [kind |-> "Function",              conditions |-> <<"Installed", "Healthy">>],
       [kind |-> "Configuration",         conditions |-> <<"Installed", "Healthy">>],
       [kind |-> "ProviderRevision",      conditions |-> <<"Healthy">>],
       [kind |-> "FunctionRevision",      conditions |-> <<"Healthy">>],
       [kind |-> "ConfigurationRevision", conditions |-> <<"Healthy">>] >>

\* printConditions, as the list of the pieces it joins.
printConditions(conditions) ==
    CASE Len(conditions) = 0 -> << >>
      [] Len(conditions) = 1 -> << conditions[1] >>
      [] Len(conditions) = 2 -> << conditions[1], " and ", conditions[2] >>
      [] OTHER -> [k \in 1..(2 * Len(conditions) - 1) |->
                     IF k % 2 = 1 THEN conditions[(k + 1) \div 2]
                     ELSE IF k = 2 * Len(conditions) - 2 THEN ", and " ELSE ", "]

(***************************************************************************)
(* Errors.  An error is the message of the outermost wrap, the cause it    *)
(* wraps, what it is about (group, kind, category, file) and, for the wait *)
(* timeout, the printed conditions.                                        *)
(***************************************************************************)
Err(msg, cause, about, conds) ==
    [msg |-> msg, cause |-> cause, about |-> about, conds |-> conds]
NoError == Err("", "", "", << >>)

ctxCanceled == "context canceled"

(***************************************************************************)
(* The archive and the store.  A path is the tuple of its components.      *)
(***************************************************************************)
Entry(path, dir, data) == [path |-> path, dir |-> dir, data |-> data]

\* Content of files: the bytes of a good export.yaml, of two manifests, of a
\* directory (none) and of a file whose copy was cut short.
ExportMetaData == "export-meta"
PartialData == "partial"

ArchiveGood ==
    << Entry(<<"export.yaml">>, FALSE, ExportMetaData),
       Entry(<<"namespaces">>, TRUE, ""),
       Entry(<<"widgets.example.io">>, TRUE, ""),
       Entry(<<"widgets.example.io", "w1.yaml">>, FALSE, "w1") >>

ArchiveStray ==
    << Entry(<<"apps.example.io">>, TRUE, ""),
       Entry(<<"export.yaml">>, FALSE, ExportMetaData),
       Entry(<<"stray.txt">>, FALSE, "stray"),
       Entry(<<"widgets.example.io">>, TRUE, "") >>

Archives == { ArchiveGood, ArchiveStray }

\* All sequences over S of length at most n.
SeqsUpTo(S, n) == UNION { [1..k -> S] : k \in 0..n }

\* Archives of any shape, for the extraction alone: up to MaxEntries entries
\* out of a directory, two files at one path inside it, and export.yaml, in
\* any order and with repetitions.
MaxEntries == 3
ExtractEntries ==
    { Entry(<<"widgets.example.io">>, TRUE, ""),
      Entry(<<"widgets.example.io", "w1.yaml">>, FALSE, "w1"),
      Entry(<<"widgets.example.io", "w1.yaml">>, FALSE, "w2"),
      Entry(<<"export.yaml">>, FALSE, ExportMetaData) }
ExtractArchives == SeqsUpTo(ExtractEntries, MaxEntries)

\* The directories above a path.
Parents(path) == { SubSeq(path, 1, k) : k \in 1..(Len(path) - 1) }

\* The in-memory file system (afero.NewMemMapFs, line 285) registers a new
\* entry with its parent and creates the parent directories that are missing.
WithParents(st, path) ==
    st \cup { Entry(p, TRUE, "") : p \in { q \in Parents(path) : \A e \in st : e.path # q } }

\* fs.Mkdir (line 356) fails on a path that exists.
MkdirFails(st, hdr) == hdr.dir /\ \E e \in st : e.path = hdr.path

\* WriteEntry without io.Copy: the file is created and left empty.
WriteEntry_DropData(st, hdr) ==
    IF hdr.dir THEN WithParents(st, hdr.path) \cup { hdr }
    ELSE WithParents({ e \in st : e.path # hdr.path }, hdr.path)
           \cup { Entry(hdr.path, FALSE, "") }

\* Lines 355-370, the store after the entry hdr was written without error:
\* Mkdir adds the directory; OpenFile with O_CREATE|O_TRUNC and io.Copy
\* replace whatever file was at the path by the content of the entry.  A
\* path that holds a directory stays a directory.
WriteEntry(st, hdr) ==
    IF hdr.dir THEN WithParents(st, hdr.path) \cup { hdr }
    ELSE IF \E e \in st : e.path = hdr.path /\ e.dir THEN st
    ELSE WithParents({ e \in st : e.path # hdr.path }, hdr.path) \cup { hdr }

\* Names of root entries in the order afero.ReadDir sorts them (by name).
SortedNames ==
    << "apps.example.io", "export.yaml", "namespaces", "stray.txt",
       "widgets.example.io" >>

\* im.fs.ReadDir("/"): the root entries of the store, sorted by name.
ReadDirRoot(st) ==
    LET present == SelectSeq(SortedNames, LAMBDA n : \E e \in st : e.path = << n >>)
    IN  [k \in 1..Len(present) |->
           [name |-> present[k],
            dir  |-> (CHOOSE e \in st : e.path = << present[k] >>).dir]]

\* ExportMeta decoded from the bytes of export.yaml.
MetaOf(data) ==
    IF data = ExportMetaData
    THEN [ok |-> TRUE, version |-> "1.14", flags |-> <<"A", "B">>]
    ELSE [ok |-> FALSE, version |-> "", flags |-> << >>]

\* What crossplane.CollectInfo can observe on the target.
ObservedInfos ==
    [version : {"1.14", "1.15"}, flags : { <<"A">>, <<"A", "B">>, <<"A", "B", "C">> }]
NoInfo == [version |-> "", flags |-> << >>]

contains(ss, s) == \E k \in 1..Len(ss) : ss[k] = s

(***************************************************************************)
(* Resources as a List call returns them.                                  *)
(***************************************************************************)
ConditionTypes == {"Established", "Installed", "Healthy"}

Res(readable, e, i, h) ==
    [readable |-> readable,
     conds |-> [c \in ConditionTypes |->
                  IF c = "Established" THEN e ELSE IF c = "Installed" THEN i ELSE h]]

\* The resources a list is drawn from: all conditions True; no status at
\* all; a status that cannot be read; Healthy False; Installed False and
\* Established missing; every condition False or Unknown.
ResourceShapes ==
    << Res(TRUE, "True", "True", "True"),
       Res(TRUE, "Missing", "Missing", "Missing"),
       Res(FALSE, "True", "True", "True"),
       Res(TRUE, "True", "True", "False"),
       Res(TRUE, "Missing", "False", "True"),
       Res(TRUE, "False", "Unknown", "False") >>

\* The lists a List call can return, up to the order of the items (a poll
\* either returns at an unreadable status or counts the unmet items; neither
\* depends on the order).
ItemLists ==
    LET idx == UNION { [1..n -> 1..Len(ResourceShapes)] : n \in 0..MaxItems }
        sorted == { s \in idx : \A k \in 1..(Len(s) - 1) : s[k] <= s[k + 1] }
    IN  { [k \in 1..Len(s) |-> ResourceShapes[s[k]]] : s \in sorted }

\* status.GetCondition(c).Status: Unknown when the condition is not there.
GetCondition(r, c) == IF r.conds[c] = "Missing" THEN "Unknown" ELSE r.conds[c]

\* UnmetOne looking at the first requested condition only.
UnmetOne_FirstConditionOnly(r, conditions) ==
    IF conditions # << >> /\ GetCondition(r, conditions[1]) # "True" THEN 1 ELSE 0

\* The inner loop of a poll for one resource: 1 when some requested
\* condition is not True (the loop breaks at the first), else 0.
UnmetOne(r, conditions) ==
    IF \E k \in 1..Len(conditions) : GetCondition(r, conditions[k]) # "True"
    THEN 1 ELSE 0

RECURSIVE Unmet(_, _)
Unmet(items, conditions) ==
    IF items = << >> THEN 0
    ELSE UnmetOne(Head(items), conditions) + Unmet(Tail(items), conditions)

\* What a poll saw: whether the list call and the status reads succeeded, the
\* items listed and the count of unmet resources.  NoPoll: no poll is running.
Poll(listed, read, items, unmet) ==
    [polled |-> TRUE, listed |-> listed, read |-> read, items |-> items, unmet |-> unmet]
NoPoll ==
    [polled |-> FALSE, listed |-> FALSE, read |-> FALSE, items |-> << >>, unmet |-> 0]

\* The target control plane as the running call has changed it: the groups
\* it applied (whole, or in part when ImportResources failed on the way),
\* each with or without the pause marker, and the categories it unpaused.
NoLive == [applied |-> {}, unpaused |-> {}]

\* The effect of ImportResources(gr, pause) returning ok.
Applied(lv, gr, pause, ok) ==
    [lv EXCEPT !.applied = @ \cup {[gr |-> gr, paused |-> pause, whole |-> ok]}]

\* The effect of ModifyResources(category, remove the pause marker).
Unpaused(lv, category, ok) ==
    [lv EXCEPT !.unpaused = @ \cup {[category |-> category, whole |-> ok]}]

VARIABLES
    archive,         \* the file options.InputArchive names
    options,         \* im.options
    fsNil,           \* im.fs == nil
    store,           \* the entries of *im.fs
    pc,              \* where the running call is; "idle" between calls
    caller,          \* the call that is running
    calls,           \* calls made so far
    cancelled,       \* the caller cancelled the context of the running call
    idx,             \* unarchive: 0 before the archive is open, then the next entry
    i,               \* index of the loop the call is in
    grs,             \* Import: the listing of the store root
    success,         \* waitForConditions: success
    timedOut,        \* waitForConditions: the deadline of its context passed
    polls,           \* waitForConditions: polls made
    lastPoll,        \* waitForConditions: what the last poll saw
    observed,        \* PreflightChecks: observed
    log,             \* the calls the running call has made, in order; kept at its return
    result,          \* what the last call returned
    unarchiveCalls,  \* calls of unarchive on this importer
    live             \* what the running call has done to the target control plane

vars == << archive, options, fsNil, store, pc, caller, calls, cancelled, idx, i,
           grs, success, timedOut, polls, lastPoll, observed, log, result,
           unarchiveCalls, live >>

config == << archive, options >>
waitVars == << success, timedOut, polls, lastPoll >>

\* A call Import made: the operation, its argument (group, kind, category),
\* the pause flag or the conditions it was given, and whether it returned
\* without error.
Ev(op, arg, pause, ok) ==
    [op |-> op, arg |-> arg, pause |-> pause, conds |-> << >>, ok |-> ok]
WaitEv(step, ok) ==
    [op |-> "waitForConditions", arg |-> step.kind, pause |-> FALSE,
     conds |-> step.conditions, ok |-> ok]

NoResult == [call |-> "", err |-> NoError, errs |-> << >>]

Init ==
    /\ archive \in Archives
    /\ options \in [UnpauseAfterImport : BOOLEAN]
    /\ fsNil = TRUE
    /\ store = {}
    /\ pc = "idle"
    /\ caller = ""
    /\ calls = 0
    /\ cancelled = FALSE
    /\ idx = 0
    /\ i = 0
    /\ grs = << >>
    /\ success = FALSE
    /\ timedOut = FALSE
    /\ polls = 0
    /\ lastPoll = NoPoll
    /\ observed = NoInfo
    /\ log = << >>
    /\ result = NoResult
    /\ unarchiveCalls = 0
    /\ live = NoLive

(***************************************************************************)
(* Helpers of the actions.                                                 *)
(***************************************************************************)
Cause(e) == IF e.cause = "" THEN e.msg ELSE e.cause

\* errors.Wrap(e, msg), with what the message is about.
Wrap(e, msg, about) ==
    Err(msg, Cause(e), IF about = "" THEN e.about ELSE about, e.conds)

\* The running call returns r.
Return(r) ==
    /\ pc' = "idle"
    /\ result' = r

ImportReturns(e) == Return([call |-> "Import", err |-> e, errs |-> << >>])
PreflightReturns(es) ==
    Return([call |-> "PreflightChecks", err |-> NoError, errs |-> es])

(***************************************************************************)
(* The caller: cancellation of the context of the running call.  The      *)
(* collaborators (ImportResources, ModifyResources, List) answer freely,   *)
(* cancelled or not; unarchive and wait.UntilWithContext test the context. *)
(***************************************************************************)
Cancel ==
    /\ pc # "idle"
    /\ ~cancelled
    /\ cancelled' = TRUE
    /\ UNCHANGED << config, live, fsNil, store, pc, caller, calls, idx, i, grs, waitVars,
                    observed, log, result, unarchiveCalls >>

(***************************************************************************)
(* unarchive.                                                              *)
(***************************************************************************)
\* What the caller of unarchive does with the error it returned: Import
\* (lines 120-126) or PreflightChecks (lines 287-290).
UnarchiveDone(e) ==
    IF caller = "Import"
    THEN IF e # NoError
         THEN /\ log' = Append(log, Ev("unarchive", "", FALSE, FALSE))
              /\ ImportReturns(Wrap(e, "cannot unarchive export archive", ""))
              /\ i' = i
         ELSE /\ log' = Append(log, Ev("unarchive", "", FALSE, TRUE))
              /\ pc' = "import_base"
              /\ i' = 1
              /\ result' = result
    ELSE /\ log' = log
         /\ i' = i
         /\ IF e # NoError
            THEN PreflightReturns(<< Wrap(e, "Cannot unarchive export archive", "") >>)
            ELSE /\ pc' = "pf_read"
                 /\ result' = result

\* os.Open and gzip.NewReader.
UnarchiveOpen ==
    /\ pc = "unarchive"
    /\ idx = 0
    /\ \E o \in {"ok", "cannot open archive", "cannot create gzip reader"} :
         IF o = "ok"
         THEN /\ idx' = 1
              /\ UNCHANGED << pc, i, log, result >>
         ELSE /\ idx' = idx
              /\ UnarchiveDone(Err(o, "", "xp-state.tar.gz", << >>))
    /\ UNCHANGED << config, live, fsNil, store, caller, calls, cancelled, grs, waitVars,
                    observed, unarchiveCalls >>

\* UnarchiveCancelled when the loop does not look at ctx.Done().
UnarchiveCancelled_Never == FALSE

\* Lines 342-346: the select on ctx.Done() at the top of the loop.
UnarchiveCancelled == cancelled

\* One iteration of the loop over the entries: the cancellation check,
\* tr.Next, and the write of the entry into the store.
UnarchiveEntry ==
    /\ pc = "unarchive"
    /\ idx >= 1
    /\ IF UnarchiveCancelled
       THEN /\ UnarchiveDone(Err(ctxCanceled, "", "", << >>))
            /\ UNCHANGED << store, idx >>
       ELSE \E o \in {"ok", "cannot read archive", "cannot create", "cannot write file"} :
            IF o = "cannot read archive"
            THEN /\ UnarchiveDone(Err(o, "", "xp-state.tar.gz", << >>))
                 /\ UNCHANGED << store, idx >>
            ELSE IF idx > Len(archive)
            THEN /\ o = "ok"
                 /\ UnarchiveDone(NoError)
                 /\ UNCHANGED << store, idx >>
            ELSE LET hdr == archive[idx]
                 IN  CASE o = "ok" ->
                            /\ ~MkdirFails(store, hdr)
                            /\ store' = WriteEntry(store, hdr)
                            /\ idx' = idx + 1
                            /\ UNCHANGED << pc, i, log, result >>
                       [] o = "cannot create" ->
                            /\ UnarchiveDone(Err(IF hdr.dir THEN "cannot create directory"
                                                 ELSE "cannot create file",
                                                 "", hdr.path[Len(hdr.path)], << >>))
                            /\ UNCHANGED << store, idx >>
                       [] o = "cannot write file" ->
                            /\ ~hdr.dir
                            /\ store' = WriteEntry(store, Entry(hdr.path, FALSE, PartialData))
                            /\ UnarchiveDone(Err(o, "", hdr.path[Len(hdr.path)], << >>))
                            /\ idx' = idx
    /\ UNCHANGED << config, live, fsNil, caller, calls, cancelled, grs, waitVars, observed,
                    unarchiveCalls >>

(***************************************************************************)
(* PreflightChecks.                                                        *)
(***************************************************************************)
VersionDiagnostic(obs, em) ==
    Err("Crossplane version does not match exported version", "", em.version, << >>)
FlagDiagnostic(ff) ==
    Err("Feature flag was set in the exported control plane but is not set in the target",
        "", ff, << >>)

\* Diagnostics that stops at the version mismatch.
Diagnostics_ShortCircuit(obs, em) ==
    LET missing == SelectSeq(em.flags, LAMBDA ff : ~contains(obs.flags, ff))
    IN  IF obs.version # em.version THEN << VersionDiagnostic(obs, em) >>
        ELSE [k \in 1..Len(missing) |-> FlagDiagnostic(missing[k])]

\* Lines 300-312: the diagnostics for observed obs and export metadata em.
Diagnostics(obs, em) ==
    LET missing == SelectSeq(em.flags, LAMBDA ff : ~contains(obs.flags, ff))
    IN  (IF obs.version # em.version THEN << VersionDiagnostic(obs, em) >> ELSE << >>)
        \o [k \in 1..Len(missing) |-> FlagDiagnostic(missing[k])]

\* A call starts with fresh locals: those of unarchive, of the listing and
\* of waitForConditions.
StartLocals ==
    /\ idx' = 0
    /\ grs' = << >>
    /\ success' = FALSE
    /\ timedOut' = FALSE
    /\ polls' = 0
    /\ lastPoll' = NoPoll

\* The call, crossplane.CollectInfo and the check of im.fs.
PreflightStart ==
    /\ pc = "idle"
    /\ calls < MaxCalls
    /\ calls' = calls + 1
    /\ caller' = "PreflightChecks"
    /\ cancelled' = FALSE
    /\ StartLocals
    /\ \/ /\ PreflightReturns(<< Err("Cannot get Crossplane info", "", "", << >>) >>)
          /\ observed' = NoInfo
          /\ UNCHANGED << fsNil, store, unarchiveCalls >>
       \/ /\ observed' \in ObservedInfos
          /\ result' = NoResult
          /\ IF fsNil
             THEN /\ fsNil' = FALSE
                  /\ store' = {}
                  /\ unarchiveCalls' = unarchiveCalls + 1
                  /\ pc' = "unarchive"
             ELSE /\ pc' = "pf_read"
                  /\ UNCHANGED << fsNil, store, unarchiveCalls >>
    /\ i' = 0
    /\ log' = << >>
    /\ live' = NoLive
    /\ UNCHANGED config

\* PreflightRead that compares whatever yaml.Unmarshal left in the metadata.
PreflightRead_NoDecodeCheck ==
    /\ pc = "pf_read"
    /\ LET found == { e \in store : e.path = << "export.yaml" >> /\ ~e.dir }
       IN  IF found = {}
           THEN PreflightReturns(<< Err("Cannot read export metadata", "", "export.yaml", << >>) >>)
           ELSE PreflightReturns(Diagnostics(observed, MetaOf((CHOOSE e \in found : TRUE).data)))
    /\ UNCHANGED << config, live, fsNil, store, caller, calls, cancelled, idx, i, grs, waitVars,
                    observed, log, unarchiveCalls >>

\* Lines 291-312: read and decode export.yaml, compare.
PreflightRead ==
    /\ pc = "pf_read"
    /\ LET found == { e \in store : e.path = << "export.yaml" >> /\ ~e.dir }
       IN  IF found = {}
           THEN PreflightReturns(<< Err("Cannot read export metadata", "", "export.yaml", << >>) >>)
           ELSE LET em == MetaOf((CHOOSE e \in found : TRUE).data)
                IN  IF ~em.ok
                    THEN PreflightReturns(<< Err("Cannot unmarshal export metadata", "",
                                                "export.yaml", << >>) >>)
                    ELSE PreflightReturns(Diagnostics(observed, em))
    /\ UNCHANGED << config, live, fsNil, store, caller, calls, cancelled, idx, i, grs, waitVars,
                    observed, log, unarchiveCalls >>

(***************************************************************************)
(* Import.                                                                 *)
(***************************************************************************)
\* ImportStart without the check of im.fs.
ImportStart_AlwaysUnarchive ==
    /\ pc = "idle"
    /\ calls < MaxCalls
    /\ calls' = calls + 1
    /\ caller' = "Import"
    /\ cancelled' = FALSE
    /\ result' = NoResult
    /\ observed' = NoInfo
    /\ log' = << >>
    /\ StartLocals
    /\ fsNil' = FALSE
    /\ store' = {}
    /\ unarchiveCalls' = unarchiveCalls + 1
    /\ pc' = "unarchive"
    /\ i' = 0
    /\ live' = NoLive
    /\ UNCHANGED config

\* Lines 109-124: the call and the check of im.fs.
ImportStart ==
    /\ pc = "idle"
    /\ calls < MaxCalls
    /\ calls' = calls + 1
    /\ caller' = "Import"
    /\ cancelled' = FALSE
    /\ result' = NoResult
    /\ observed' = NoInfo
    /\ log' = << >>
    /\ StartLocals
    /\ IF fsNil
       THEN /\ fsNil' = FALSE
            /\ store' = {}
            /\ unarchiveCalls' = unarchiveCalls + 1
            /\ pc' = "unarchive"
            /\ i' = 0
       ELSE /\ pc' = "import_base"
            /\ i' = 1
            /\ UNCHANGED << fsNil, store, unarchiveCalls >>
    /\ live' = NoLive
    /\ UNCHANGED config

\* ImportBase with a loop that ends one group early.
ImportBase_SkipLast ==
    /\ pc = "import_base"
    /\ LET gr == baseResources[i]
       IN  \E ok \in BOOLEAN :
             /\ log' = Append(log, Ev("ImportResources", gr, FALSE, ok))
             /\ live' = Applied(live, gr, FALSE, ok)
             /\ IF ~ok
                THEN /\ ImportReturns(Err("cannot import resources", "apply failed", gr, << >>))
                     /\ i' = i
                ELSE /\ result' = result
                     /\ IF i < Len(baseResources) - 1
                        THEN pc' = pc /\ i' = i + 1
                        ELSE pc' = "wait_start" /\ i' = 1
    /\ UNCHANGED << config, fsNil, store, caller, calls, cancelled, idx, grs, waitVars,
                    observed, unarchiveCalls >>

\* Lines 139-147: one iteration of the loop over baseResources.
ImportBase ==
    /\ pc = "import_base"
    /\ LET gr == baseResources[i]
       IN  \E ok \in BOOLEAN :
             /\ log' = Append(log, Ev("ImportResources", gr, FALSE, ok))
             /\ live' = Applied(live, gr, FALSE, ok)
             /\ IF ~ok
                THEN /\ ImportReturns(Err("cannot import resources", "apply failed", gr, << >>))
                     /\ i' = i
                ELSE /\ result' = result
                     /\ IF i < Len(baseResources)
                        THEN pc' = pc /\ i' = i + 1
                        ELSE pc' = "wait_start" /\ i' = 1
    /\ UNCHANGED << config, fsNil, store, caller, calls, cancelled, idx, grs, waitVars,
                    observed, unarchiveCalls >>

(***************************************************************************)
(* waitForConditions, called for WaitSteps[i].                             *)
(***************************************************************************)
\* CtxDone when the poll that sets success does not call cancel().
CtxDone_NoCancel == cancelled \/ timedOut

\* ctx.Done() of the context waitForConditions derives: the caller
\* cancelled, the 10 minute deadline passed, or cancel() was called (the
\* poll that sets success calls it).
CtxDone == cancelled \/ timedOut \/ success

\* Lines 386 and 391-393: the call of RESTMapping for the kind, and the
\* state a wait starts with.
WaitStart ==
    /\ pc = "wait_start"
    /\ \E mapped \in BOOLEAN :
         /\ pc' = IF mapped THEN "wait_loop" ELSE "wait_maperr"
         /\ UNCHANGED << log, result >>
    /\ success' = FALSE
    /\ timedOut' = FALSE
    /\ polls' = 0
    /\ lastPoll' = NoPoll
    /\ UNCHANGED << config, live, fsNil, store, caller, calls, cancelled, idx, i, grs, observed,
                    unarchiveCalls >>

\* WaitMapError that takes the failure for a failed poll and tries again.
WaitMapError_Retry ==
    /\ pc = "wait_maperr"
    /\ pc' = "wait_sleep"
    /\ polls' = 1
    /\ lastPoll' = Poll(FALSE, FALSE, << >>, 0)
    /\ UNCHANGED << config, live, fsNil, store, caller, calls, cancelled, idx, i, grs,
                    success, timedOut, observed, log, result, unarchiveCalls >>

\* Lines 387-389: RESTMapping failed; waitForConditions returns the error
\* and Import wraps it (lines 159-191).
WaitMapError ==
    /\ pc = "wait_maperr"
    /\ log' = Append(log, WaitEv(WaitSteps[i], FALSE))
    /\ ImportReturns(Err("there are unhealthy", "cannot get REST mapping",
                         WaitSteps[i].kind, << >>))
    /\ UNCHANGED << config, live, fsNil, store, caller, calls, cancelled, idx, i, grs,
                    waitVars, observed, unarchiveCalls >>

\* What one run of the polled function sees and computes (lines 395-423):
\* the list failed; a status could not be read; or the count of unmet.
PollOf(listed, items, conditions) ==
    IF ~listed THEN Poll(FALSE, FALSE, << >>, 0)
    ELSE IF \E k \in 1..Len(items) : ~items[k].readable
    THEN Poll(TRUE, FALSE, items, 0)
    ELSE Poll(TRUE, TRUE, items, Unmet(items, conditions))

\* PollSucceeds when the early returns of the polled function are missing.
PollSucceeds_IgnoreErrors(p) == p.unmet = 0

\* The poll sets success.
PollSucceeds(p) == p.listed /\ p.read /\ p.unmet = 0

\* The top of the loop of wait.UntilWithContext finds the context live and
\* runs the polled function once.
WaitPoll ==
    /\ pc = "wait_loop"
    /\ ~CtxDone
    /\ \E listed \in BOOLEAN, items \in ItemLists :
         /\ (~listed => items = << >>)
         /\ lastPoll' = PollOf(listed, items, WaitSteps[i].conditions)
    /\ success' = PollSucceeds(lastPoll')
    /\ polls' = polls + 1
    /\ pc' = "wait_sleep"
    /\ UNCHANGED << config, live, fsNil, store, caller, calls, cancelled, idx, i, grs, timedOut,
                    observed, log, result, unarchiveCalls >>

\* After the polled function: the 5 second timer fires before the context
\* is done.  What the poll saw is gone with it.
WaitTick ==
    /\ pc = "wait_sleep"
    /\ ~CtxDone
    /\ polls < MaxPolls
    /\ pc' = "wait_loop"
    /\ lastPoll' = NoPoll
    /\ UNCHANGED << config, live, fsNil, store, caller, calls, cancelled, idx, i, grs, success,
                    timedOut, polls, observed, log, result, unarchiveCalls >>

\* A context without a deadline.
Deadline_Never ==
    /\ FALSE
    /\ UNCHANGED vars

\* The deadline of context.WithTimeout passes.  It is ten minutes after the
\* context was made and the first poll starts at once, so it passes during
\* the first poll at the earliest; a poll can take any time, so it can pass
\* at any point from there, and it has passed once MaxPolls ticks are over.
Deadline ==
    /\ pc \in {"wait_loop", "wait_sleep"}
    /\ polls >= 1
    /\ ~timedOut
    /\ timedOut' = TRUE
    /\ UNCHANGED << config, live, fsNil, store, pc, caller, calls, cancelled, idx, i, grs,
                    success, polls, lastPoll, observed, log, result, unarchiveCalls >>

\* Lines 426-430: the error waitForConditions returns.
WaitError(step) ==
    IF ~success
    THEN Err("timeout waiting for conditions", "", step.kind, printConditions(step.conditions))
    ELSE NoError

\* The loop ends because the context is done; waitForConditions returns and
\* Import goes on (lines 159-197).  When Import returns the error, the state
\* of the wait stays as it was at the return; otherwise it is dropped.
WaitReturn ==
    /\ pc \in {"wait_loop", "wait_sleep"}
    /\ CtxDone
    /\ LET e == WaitError(WaitSteps[i])
       IN  /\ log' = Append(log, WaitEv(WaitSteps[i], e = NoError))
           /\ IF e # NoError
              THEN /\ ImportReturns(Wrap(e, "there are unhealthy", WaitSteps[i].kind))
                   /\ UNCHANGED << i, waitVars >>
              ELSE /\ result' = result
                   /\ IF i < Len(WaitSteps)
                      THEN pc' = "wait_start" /\ i' = i + 1
                      ELSE pc' = "reset" /\ i' = 0
                   /\ success' = FALSE
                   /\ timedOut' = FALSE
                   /\ polls' = 0
                   /\ lastPoll' = NoPoll
    /\ UNCHANGED << config, live, fsNil, store, caller, calls, cancelled, idx, grs, observed,
                    unarchiveCalls >>

(***************************************************************************)
(* Import, after the waits.                                                *)
(***************************************************************************)
\* ResetAndList without the call of resourceMapper.Reset.
ResetAndList_NoReset ==
    /\ pc = "reset"
    /\ \E ok \in BOOLEAN :
         IF ~ok
         THEN /\ log' = Append(log, Ev("ReadDir", "/", FALSE, FALSE))
              /\ ImportReturns(Err("cannot list group resources", "readdir failed", "/", << >>))
              /\ UNCHANGED << grs, i >>
         ELSE /\ log' = Append(log, Ev("ReadDir", "/", FALSE, TRUE))
              /\ grs' = ReadDirRoot(store)
              /\ i' = 1
              /\ pc' = IF grs' = << >> THEN "unpause_composite" ELSE "import_remaining"
              /\ result' = result
    /\ UNCHANGED << config, live, fsNil, store, caller, calls, cancelled, idx, waitVars, observed,
                    unarchiveCalls >>

\* Lines 197-206: resourceMapper.Reset and the listing of the store root.
ResetAndList ==
    /\ pc = "reset"
    /\ \E ok \in BOOLEAN :
         IF ~ok
         THEN /\ log' = log \o << Ev("Reset", "", FALSE, TRUE), Ev("ReadDir", "/", FALSE, FALSE) >>
              /\ ImportReturns(Err("cannot list group resources", "readdir failed", "/", << >>))
              /\ UNCHANGED << grs, i >>
         ELSE /\ log' = log \o << Ev("Reset", "", FALSE, TRUE), Ev("ReadDir", "/", FALSE, TRUE) >>
              /\ grs' = ReadDirRoot(store)
              /\ i' = 1
              /\ pc' = IF grs' = << >> THEN "unpause_composite" ELSE "import_remaining"
              /\ result' = result
    /\ UNCHANGED << config, live, fsNil, store, caller, calls, cancelled, idx, waitVars, observed,
                    unarchiveCalls >>

\* The loop over the listing goes to its next entry, or ends.
ImportGoesOn ==
    /\ result' = result
    /\ i' = i + 1
    /\ pc' = IF i < Len(grs) THEN pc ELSE "unpause_composite"

\* UnexpectedFile when the loop takes every entry for a group.
UnexpectedFile_Never(info) == FALSE

\* Line 213: the entry of the root is not a directory.
UnexpectedFile(info) == ~info.dir

\* ImportRemaining without the return on an error of ImportResources.
ImportRemaining_ContinueOnError ==
    /\ pc = "import_remaining"
    /\ LET info == grs[i]
       IN  IF info.name = "export.yaml" \/ (info.dir /\ isBaseResource(info.name))
           THEN log' = log /\ live' = live /\ ImportGoesOn
           ELSE IF ~info.dir
           THEN /\ log' = Append(log, Ev("unexpected file", info.name, FALSE, FALSE))
                /\ ImportReturns(Err("unexpected file in root directory of exported state",
                                     "", info.name, << >>))
                /\ i' = i
                /\ live' = live
           ELSE /\ \E ok \in BOOLEAN :
                     /\ log' = Append(log, Ev("ImportResources", info.name, TRUE, ok))
                     /\ live' = Applied(live, info.name, TRUE, ok)
                /\ ImportGoesOn
    /\ UNCHANGED << config, fsNil, store, caller, calls, cancelled, idx, grs, waitVars,
                    observed, unarchiveCalls >>

\* ImportRemaining that deletes what the run applied when a group fails.
ImportRemaining_Rollback ==
    /\ pc = "import_remaining"
    /\ LET info == grs[i]
           goOn == ImportGoesOn /\ live' = live
       IN  IF info.name = "export.yaml"
           THEN goOn /\ log' = log
           ELSE IF ~info.dir
           THEN /\ log' = Append(log, Ev("unexpected file", info.name, FALSE, FALSE))
                /\ ImportReturns(Err("unexpected file in root directory of exported state",
                                     "", info.name, << >>))
                /\ i' = i
                /\ live' = live
           ELSE IF isBaseResource(info.name)
           THEN goOn /\ log' = log
           ELSE \E ok \in BOOLEAN :
                  /\ log' = Append(log, Ev("ImportResources", info.name, TRUE, ok))
                  /\ live' = IF ok THEN Applied(live, info.name, TRUE, ok) ELSE NoLive
                  /\ IF ok THEN ImportGoesOn
                     ELSE /\ ImportReturns(Err("cannot import resources", "apply failed",
                                               info.name, << >>))
                          /\ i' = i
    /\ UNCHANGED << config, fsNil, store, caller, calls, cancelled, idx, grs, waitVars,
                    observed, unarchiveCalls >>

\* Lines 208-228: one iteration of the loop over the listing.
ImportRemaining ==
    /\ pc = "import_remaining"
    /\ LET info == grs[i]
           goOn == ImportGoesOn /\ live' = live
       IN  IF info.name = "export.yaml"
           THEN goOn /\ log' = log
           ELSE IF UnexpectedFile(info)
           THEN /\ log' = Append(log, Ev("unexpected file", info.name, FALSE, FALSE))
                /\ ImportReturns(Err("unexpected file in root directory of exported state",
                                     "", info.name, << >>))
                /\ i' = i
                /\ live' = live
           ELSE IF isBaseResource(info.name)
           THEN goOn /\ log' = log
           ELSE \E ok \in BOOLEAN :
                  /\ log' = Append(log, Ev("ImportResources", info.name, TRUE, ok))
                  /\ live' = Applied(live, info.name, TRUE, ok)
                  /\ IF ok THEN ImportGoesOn
                     ELSE /\ ImportReturns(Err("cannot import resources", "apply failed",
                                               info.name, << >>))
                          /\ i' = i
    /\ UNCHANGED << config, fsNil, store, caller, calls, cancelled, idx, grs, waitVars,
                    observed, unarchiveCalls >>

\* cm.ModifyResources(ctx, category, remove "crossplane.io/paused"), and
\* where Import goes when it returned without error.
ModifyResources(category, next) ==
    \E ok \in BOOLEAN :
      /\ log' = Append(log, Ev("ModifyResources", category, FALSE, ok))
      /\ live' = Unpaused(live, category, ok)
      /\ IF ~ok
         THEN ImportReturns(Err("cannot unpause", "modify failed", category, << >>))
         ELSE IF next = "idle" THEN ImportReturns(NoError)
         ELSE pc' = next /\ result' = result

\* Lines 242-248.
UnpauseComposite ==
    /\ pc = "unpause_composite"
    /\ ModifyResources("composite", "unpause_claim")
    /\ UNCHANGED << config, fsNil, store, caller, calls, cancelled, idx, i, grs, waitVars,
                    observed, unarchiveCalls >>

\* UnpauseClaim without the test of options.UnpauseAfterImport.
UnpauseClaim_IgnoreOption ==
    /\ pc = "unpause_claim"
    /\ ModifyResources("claim", "unpause_managed")
    /\ UNCHANGED << config, fsNil, store, caller, calls, cancelled, idx, i, grs, waitVars,
                    observed, unarchiveCalls >>

\* Lines 250-259: the claims, then the test of the option.
UnpauseClaim ==
    /\ pc = "unpause_claim"
    /\ ModifyResources("claim", IF options.UnpauseAfterImport THEN "unpause_managed"
                                ELSE "idle")
    /\ UNCHANGED << config, fsNil, store, caller, calls, cancelled, idx, i, grs, waitVars,
                    observed, unarchiveCalls >>

\* Lines 260-273.
UnpauseManaged ==
    /\ pc = "unpause_managed"
    /\ ModifyResources("managed", "idle")
    /\ UNCHANGED << config, fsNil, store, caller, calls, cancelled, idx, i, grs, waitVars,
                    observed, unarchiveCalls >>

Next ==
    \/ PreflightStart
    \/ PreflightRead
    \/ ImportStart
    \/ UnarchiveOpen
    \/ UnarchiveEntry
    \/ ImportBase
    \/ WaitStart
    \/ WaitMapError
    \/ WaitPoll
    \/ WaitTick
    \/ Deadline
    \/ WaitReturn
    \/ ResetAndList
    \/ ImportRemaining
    \/ UnpauseComposite
    \/ UnpauseClaim
    \/ UnpauseManaged
    \/ Cancel

Spec == Init /\ [][Next]_vars

\* The steps of the running call itself: Import and PreflightChecks are
\* sequential code with no blocking operation beside the wait loop, so the
\* call takes its next step whenever it has one.
CallStep ==
    \/ PreflightRead
    \/ UnarchiveOpen
    \/ UnarchiveEntry
    \/ ImportBase
    \/ WaitStart
    \/ WaitMapError
    \/ WaitPoll
    \/ WaitTick
    \/ WaitReturn
    \/ ResetAndList
    \/ ImportRemaining
    \/ UnpauseComposite
    \/ UnpauseClaim
    \/ UnpauseManaged

\* The running call makes progress and the timer of context.WithTimeout
\* (line 391) fires; the caller may or may not start calls or cancel.
SpecFair == Spec /\ WF_vars(CallStep) /\ WF_vars(Deadline)

\* The extraction alone, on archives of any shape: PreflightChecks is the
\* caller of unarchive, and reads the metadata out of what it left.
InitExtract ==
    /\ archive \in ExtractArchives
    /\ options \in [UnpauseAfterImport : BOOLEAN]
    /\ fsNil = TRUE
    /\ store = {}
    /\ pc = "idle"
    /\ caller = ""
    /\ calls = 0
    /\ cancelled = FALSE
    /\ idx = 0
    /\ i = 0
    /\ grs = << >>
    /\ success = FALSE
    /\ timedOut = FALSE
    /\ polls = 0
    /\ lastPoll = NoPoll
    /\ observed = NoInfo
    /\ log = << >>
    /\ result = NoResult
    /\ unarchiveCalls = 0
    /\ live = NoLive

NextExtract ==
    \/ PreflightStart
    \/ UnarchiveOpen
    \/ UnarchiveEntry
    \/ PreflightRead
    \/ Cancel

SpecExtract == InitExtract /\ [][NextExtract]_vars

TypeOK ==
    /\ pc \in {"idle", "unarchive", "pf_read", "import_base", "wait_start", "wait_maperr",
               "wait_loop", "wait_sleep", "reset", "import_remaining", "unpause_composite",
               "unpause_claim", "unpause_managed"}
    /\ calls \in 0..MaxCalls
    /\ polls \in 0..MaxPolls
    /\ unarchiveCalls \in 0..MaxCalls

(***************************************************************************)
(* Properties.  log is the sequence of calls the running (or last) call    *)
(* made, each recorded when it returned.                                   *)
(***************************************************************************)
IsBaseImport(e) == e.op = "ImportResources" /\ ~e.pause
IsRemainingImport(e) == e.op = "ImportResources" /\ e.pause
IsUnpause(e) == e.op = "ModifyResources"

\* The event at a position before b.
Before(b, e) == \E a \in 1..(b - 1) : log[a] = e

ImportSucceeded == pc = "idle" /\ result.call = "Import" /\ result.err = NoError
ImportFailed == pc = "idle" /\ result.call = "Import" /\ result.err # NoError

\* The readiness waits as the specification lists them.
ExpectedWaits ==
    << << "CompositeResourceDefinition", << "Established" >> >>,
       << "Provider", << "Installed", "Healthy" >> >>,
       << "Function", << "Installed", "Healthy" >> >>,
       << "Configuration", << "Installed", "Healthy" >> >>,
       << "ProviderRevision", << "Healthy" >> >>,
       << "FunctionRevision", << "Healthy" >> >>,
       << "ConfigurationRevision", << "Healthy" >> >> >>

ExpectedWaitEv(k, ok) ==
    [op |-> "waitForConditions", arg |-> ExpectedWaits[k][1], pause |-> FALSE,
     conds |-> ExpectedWaits[k][2], ok |-> ok]

\* The waits recorded in log, in order.
WaitsLogged == SelectSeq(log, LAMBDA e : e.op = "waitForConditions")

\* C1: every base-set import (pause=false) has returned, without error,
\* before the first remaining-group import (pause=true) is made: at a
\* remaining-group import all twelve base groups are imported, every base
\* import lies before it, and none of them failed.
C1_BaseBeforeRemaining ==
    \A b \in 1..Len(log) :
      IsRemainingImport(log[b]) =>
        /\ \A k \in 1..Len(baseResources) :
             Before(b, Ev("ImportResources", baseResources[k], FALSE, TRUE))
        /\ \A a \in 1..Len(log) : IsBaseImport(log[a]) => (a < b /\ log[a].ok)

C1_Witness ==
    \E b \in 1..Len(log) : IsRemainingImport(log[b]) /\ log[b].arg = "widgets.example.io"

\* C2: no remaining-group import, cache invalidation or unpause happens
\* before all seven readiness waits succeeded, and the waits are made in the
\* order and with the conditions the specification lists, each only after
\* the one before it succeeded.
C2_WaitsGateLaterPhases ==
    /\ \A b \in 1..Len(log) :
         (IsRemainingImport(log[b]) \/ log[b].op = "Reset" \/ IsUnpause(log[b])) =>
           \A k \in 1..Len(ExpectedWaits) : Before(b, ExpectedWaitEv(k, TRUE))
    /\ Len(WaitsLogged) <= Len(ExpectedWaits)
    /\ \A k \in 1..Len(WaitsLogged) :
         /\ WaitsLogged[k].arg = ExpectedWaits[k][1]
         /\ WaitsLogged[k].conds = ExpectedWaits[k][2]
         /\ k < Len(WaitsLogged) => WaitsLogged[k].ok
    /\ pc \in {"wait_start", "wait_loop", "wait_sleep"} =>
         /\ Len(WaitsLogged) = i - 1
         /\ \A k \in 1..Len(WaitsLogged) : WaitsLogged[k].ok

C2_Witness ==
    /\ \E b \in 1..Len(log) : log[b].op = "Reset"
    /\ \E b \in 1..Len(log) : IsRemainingImport(log[b])

\* C3: the claims are unpaused only after the unpause of the composites
\* returned without error; "managed" is never modified when
\* UnpauseAfterImport is false, and when it is true only after both the
\* composite and the claim unpause succeeded.
C3_FinalizeOrder ==
    \A b \in 1..Len(log) :
      IsUnpause(log[b]) =>
        /\ log[b].arg \in {"composite", "claim", "managed"}
        /\ log[b].arg = "claim" =>
             Before(b, Ev("ModifyResources", "composite", FALSE, TRUE))
        /\ log[b].arg = "managed" =>
             /\ options.UnpauseAfterImport
             /\ Before(b, Ev("ModifyResources", "composite", FALSE, TRUE))
             /\ Before(b, Ev("ModifyResources", "claim", FALSE, TRUE))

C3_Witness ==
    /\ ImportSucceeded
    /\ ~options.UnpauseAfterImport
    /\ \E b \in 1..Len(log) : IsUnpause(log[b]) /\ log[b].arg = "claim"

\* C4: once a step of Import returned an error, Import has returned an
\* error and has made no call of a later step: a failed call is the last
\* entry of log, and Import has returned with an error.
C4_TerminalOnFirstError ==
    \A a \in 1..Len(log) :
      ~log[a].ok => (a = Len(log) /\ ImportFailed)

C4_Witness ==
    /\ ImportFailed
    /\ \E a \in 1..Len(log) : IsRemainingImport(log[a]) /\ ~log[a].ok

InWait == pc \in {"wait_loop", "wait_sleep"}

\* Every item is readable and reports True for every one of the conditions.
AllTrue(items, conditions) ==
    \A k \in 1..Len(items) :
      /\ items[k].readable
      /\ \A c \in 1..Len(conditions) : items[k].conds[conditions[c]] = "True"

\* The items that fail at least one of the conditions: the condition is
\* missing (also when there is no status), False or Unknown.
UnmetItems(items, conditions) ==
    { k \in 1..Len(items) :
        \E c \in 1..Len(conditions) :
          items[k].conds[conditions[c]] \in {"Missing", "False", "Unknown"} }

\* C5: when the first poll of a wait lists zero resources, or only resources
\* that report True for every requested condition, the wait has succeeded at
\* that poll: success is set, no tick is waited for and no further poll is
\* made, and waitForConditions returns nil.
C5_FirstPollSucceeds ==
    (/\ pc = "wait_sleep"
     /\ polls = 1
     /\ lastPoll.polled /\ lastPoll.listed
     /\ AllTrue(lastPoll.items, WaitSteps[i].conditions)) =>
       /\ success
       /\ ~ENABLED WaitTick
       /\ ~ENABLED WaitPoll
       /\ ENABLED WaitReturn
       /\ WaitError(WaitSteps[i]) = NoError

C5_Witness ==
    /\ pc = "wait_sleep"
    /\ polls = 1
    /\ lastPoll.polled /\ lastPoll.listed
    /\ lastPoll.items = << >>

\* C6, the state part: a poll whose list call or status read failed does not
\* set success and does not end the wait; unless the context is done by
\* then, the wait goes on to the next tick.
C6_FailedPollGoesOn ==
    (/\ pc = "wait_sleep"
     /\ lastPoll.polled
     /\ (~lastPoll.listed \/ ~lastPoll.read)) =>
       /\ ~success
       /\ ~CtxDone => (~ENABLED WaitReturn /\ (polls < MaxPolls => ENABLED WaitTick))

\* C6, the return: a wait that ends with no poll having succeeded makes
\* Import fail with the timeout error, which names the kind and each of
\* the conditions.
C6_TimeoutError ==
    (InWait /\ ~success /\ pc' = "idle") =>
      /\ result'.call = "Import"
      /\ result'.err.cause = "timeout waiting for conditions"
      /\ result'.err.about = ExpectedWaits[i][1]
      /\ \A c \in 1..Len(ExpectedWaits[i][2]) :
           \E k \in 1..Len(result'.err.conds) :
             result'.err.conds[k] = ExpectedWaits[i][2][c]

\* C6: if no poll finds every resource satisfied before the wait ends,
\* waitForConditions fails with a timeout error naming the conditions and
\* the kind; a poll whose list call or status read fails neither ends the
\* wait nor signals success, and polling goes on at the next tick.
C6_TimeoutAndTransientErrors ==
    [] C6_FailedPollGoesOn /\ [][C6_TimeoutError]_vars

C6_Witness ==
    /\ ImportFailed
    /\ result.err.cause = "timeout waiting for conditions"
    /\ ~cancelled /\ timedOut
    /\ polls = MaxPolls
    /\ lastPoll.polled /\ ~lastPoll.listed

\* C7, the state part: success is set only by a poll whose list call
\* succeeded and whose every resource reports True for every requested
\* condition; the count of unmet resources counts each resource that fails
\* some condition once.
C7_SuccessNeedsAllTrue ==
    /\ success =>
         /\ lastPoll.polled /\ lastPoll.listed
         /\ AllTrue(lastPoll.items, ExpectedWaits[i][2])
    /\ (lastPoll.polled /\ lastPoll.listed /\ lastPoll.read) =>
         lastPoll.unmet = Cardinality(UnmetItems(lastPoll.items, ExpectedWaits[i][2]))

\* C7, the return: waitForConditions returns nil only from such a poll.
C7_ReturnNeedsSuccess ==
    (InWait /\ pc' \in {"wait_start", "reset"}) =>
      /\ success
      /\ lastPoll.listed
      /\ AllTrue(lastPoll.items, ExpectedWaits[i][2])

\* C7: waitForConditions returns success only if one poll listed the
\* resources and every one of them reported True for every requested
\* condition; a resource with no status, a missing condition, or a condition
\* False or Unknown is unmet, and is counted once.
C7_SuccessOnlyIfAllMet ==
    [] C7_SuccessNeedsAllTrue /\ [][C7_ReturnNeedsSuccess]_vars

C7_Witness ==
    /\ pc = "wait_sleep"
    /\ i = 2
    /\ success
    /\ Len(lastPoll.items) = 2

\* What the last call of the log is.
LastCall(op, ok) == log # << >> /\ log[Len(log)].op = op /\ log[Len(log)].ok = ok

\* The part of C8 about unarchive: cancelled in its loop, unarchive makes
\* Import fail with the context's error.
C8_UnarchiveCancelled ==
    (/\ pc = "idle" /\ caller = "Import" /\ cancelled
     /\ idx >= 1
     /\ LastCall("unarchive", FALSE)) =>
       result.err.cause = ctxCanceled

\* C8: a step in flight when the caller cancels the context returns a
\* cancellation error: unarchive returns the context's error, and a
\* waitForConditions call that polled and was then ended by the caller's
\* cancellation, its own deadline not having passed, makes Import fail with
\* a cancellation error, not with the timeout error.
C8_CancellationError ==
    /\ C8_UnarchiveCancelled
    /\ (/\ ImportFailed /\ cancelled /\ ~timedOut
        /\ LastCall("waitForConditions", FALSE)
        /\ polls >= 1) =>
          result.err.cause = ctxCanceled

\* C9: on one importer unarchive is called at most once, whatever calls of
\* PreflightChecks and Import are made; an Import that finds the store set
\* goes on to the base imports without calling unarchive.
C9_ExtractAtMostOnce ==
    /\ unarchiveCalls <= 1
    /\ pc = "unarchive" => unarchiveCalls = 1
    /\ (caller = "Import" /\ pc # "idle" /\ log # << >> /\ log[1].op # "unarchive") =>
         (~fsNil /\ unarchiveCalls = 1)

C9_Witness ==
    /\ calls = 2
    /\ caller = "Import"
    /\ pc = "import_base"
    /\ log # << >> /\ log[1].op = "ImportResources"
    /\ \E e \in store : e.path = << "widgets.example.io", "w1.yaml" >>

\* The positions of log at which the cache was invalidated.
Resets == { b \in 1..Len(log) : log[b].op = "Reset" }

\* C10: resourceMapper.Reset is called at most once in a run, only after
\* all seven waits succeeded and before any remaining-group import, and
\* exactly once in a run that succeeds.
C10_ResetExactlyOnce ==
    /\ Cardinality(Resets) <= 1
    /\ \A b \in Resets :
         /\ \A k \in 1..Len(ExpectedWaits) : Before(b, ExpectedWaitEv(k, TRUE))
         /\ \A a \in 1..(b - 1) : ~IsRemainingImport(log[a])
    /\ \A a \in 1..Len(log) :
         IsRemainingImport(log[a]) => \E b \in Resets : b < a
    /\ ImportSucceeded => Cardinality(Resets) = 1

C10_Witness ==
    /\ ImportSucceeded
    /\ \E a \in 1..Len(log) : IsRemainingImport(log[a])
    /\ Cardinality(Resets) = 1

\* The ImportResources calls of log for a group with a pause flag.
ImportsOf(gr, pause) ==
    { a \in 1..Len(log) :
        log[a].op = "ImportResources" /\ log[a].arg = gr /\ log[a].pause = pause }

\* The names of the base set, as the specification of the program lists them.
BaseSet == { baseResources[k] : k \in 1..Len(baseResources) }

\* The directories of the store root.
RootDirs == { e.path[1] : e \in { x \in store : Len(x.path) = 1 /\ x.dir } }

\* C11: no group is imported twice, export.yaml is never imported and no
\* base-set group is imported with pause=true; in a run that succeeded every
\* base-set group was imported exactly once with pause=false and every
\* directory of the store root outside the base set exactly once with
\* pause=true, and nothing else was imported.
C11_EachGroupOnce ==
    /\ \A a, b \in 1..Len(log) :
         (log[a].op = "ImportResources" /\ log[b].op = "ImportResources"
          /\ log[a].arg = log[b].arg) => a = b
    /\ \A a \in 1..Len(log) :
         log[a].op = "ImportResources" =>
           /\ log[a].arg # "export.yaml"
           /\ log[a].pause => log[a].arg \notin BaseSet
           /\ ~log[a].pause => log[a].arg \in BaseSet
    /\ ImportSucceeded =>
         /\ \A gr \in BaseSet : Cardinality(ImportsOf(gr, FALSE)) = 1
         /\ \A gr \in RootDirs \ BaseSet : Cardinality(ImportsOf(gr, TRUE)) = 1
         /\ \A a \in 1..Len(log) :
              IsRemainingImport(log[a]) => log[a].arg \in RootDirs \ BaseSet

C11_Witness ==
    /\ ImportSucceeded
    /\ "namespaces" \in RootDirs
    /\ Cardinality(ImportsOf("widgets.example.io", TRUE)) = 1

\* What the export.yaml of the archives records.
ExportedVersion == "1.14"
ExportedFlags == {"A", "B"}

\* The store holds an export.yaml that can be read and decoded.
ExportReadable ==
    \E e \in store : e.path = << "export.yaml" >> /\ ~e.dir /\ e.data = ExportMetaData

VersionMsg == "Crossplane version does not match exported version"
FlagMsg == "Feature flag was set in the exported control plane but is not set in the target"

\* The diagnostics of a list: those about the version, those about flag f.
VersionDiags(errs) == { k \in 1..Len(errs) : errs[k].msg = VersionMsg }
FlagDiags(errs, f) == { k \in 1..Len(errs) : errs[k].msg = FlagMsg /\ errs[k].about = f }

\* The exported flags that are not enabled on the observed target.
MissingFlags == { f \in ExportedFlags : \A k \in 1..Len(observed.flags) : observed.flags[k] # f }

\* C12: when the target info was collected and the export metadata is read
\* and decoded, PreflightChecks returns one diagnostic if the versions
\* differ, one for each exported flag the target does not enable, and
\* nothing else: the empty list when the versions are equal and every
\* exported flag is enabled; a flag enabled on the target only gives none.
C12_PreflightReturn ==
    (pc = "pf_read" /\ pc' = "idle" /\ ExportReadable) =>
      LET errs == result'.errs
      IN  /\ result'.call = "PreflightChecks"
          /\ Cardinality(VersionDiags(errs)) =
               (IF observed.version # ExportedVersion THEN 1 ELSE 0)
          /\ \A f \in MissingFlags : Cardinality(FlagDiags(errs, f)) = 1
          /\ Len(errs) = Cardinality(VersionDiags(errs)) + Cardinality(MissingFlags)
          /\ (observed.version = ExportedVersion /\ MissingFlags = {}) => errs = << >>

C12_Diagnostics == [][C12_PreflightReturn]_vars

C12_Witness ==
    /\ pc = "idle"
    /\ result.call = "PreflightChecks"
    /\ ExportReadable
    /\ observed.version = "1.15" /\ observed.flags = << "A" >>
    /\ Len(result.errs) = 2
    /\ Cardinality(FlagDiags(result.errs, "B")) = 1


\* PreflightChecks has returned the list errs.
PreflightReturned == pc = "idle" /\ result.call = "PreflightChecks"

IsDiagnostic(e) == e.msg \in {VersionMsg, FlagMsg}
AllDiagnostics(errs) == \A k \in 1..Len(errs) : IsDiagnostic(errs[k])
\* A single error that is not a compatibility diagnostic, with message m.
SingleFatal(errs, m) == Len(errs) = 1 /\ errs[1].msg = m

\* The store holds no readable export.yaml / one that does not decode.
ExportMissing == ~\E e \in store : e.path = << "export.yaml" >> /\ ~e.dir
ExportUndecodable ==
    \E e \in store : e.path = << "export.yaml" >> /\ ~e.dir /\ e.data # ExportMetaData

\* C13 as stated: PreflightChecks returns a single fatal error only when
\* the exported state cannot be read (extraction, reading export.yaml or
\* decoding it fails).
C13_FatalOnlyForState ==
    (PreflightReturned /\ ~AllDiagnostics(result.errs)) =>
        \/ SingleFatal(result.errs, "Cannot unarchive export archive")
        \/ SingleFatal(result.errs, "Cannot read export metadata")
        \/ SingleFatal(result.errs, "Cannot unmarshal export metadata")

\* C13: PreflightChecks returns a single fatal error exactly when the
\* target's Crossplane info cannot be collected or the exported state cannot
\* be read (extraction fails, export.yaml is missing, or it does not
\* decode); in every other case it returns the compatibility diagnostics.
C13_FatalOrDiagnostics ==
    PreflightReturned =>
        \/ /\ SingleFatal(result.errs, "Cannot get Crossplane info")
           /\ observed = NoInfo
        \/ /\ SingleFatal(result.errs, "Cannot unarchive export archive")
           /\ observed # NoInfo
           /\ unarchiveCalls >= 1
        \/ /\ SingleFatal(result.errs, "Cannot read export metadata")
           /\ observed # NoInfo
           /\ ExportMissing
        \/ /\ SingleFatal(result.errs, "Cannot unmarshal export metadata")
           /\ observed # NoInfo
           /\ ExportUndecodable
        \/ /\ AllDiagnostics(result.errs)
           /\ observed # NoInfo
           /\ ExportReadable

C13_Witness ==
    /\ PreflightReturned
    /\ SingleFatal(result.errs, "Cannot unmarshal export metadata")
    /\ ExportUndecodable


\* C14: every waitForConditions call returns, whatever the polls see: by
\* success, by the timeout or by cancellation, after at most MaxPolls polls
\* (the loop of one call is always left; the next call starts outside it);
\* so every Import call reaches its return, with success or with an error.
C14_WaitAndImportTerminate ==
    /\ InWait ~> ~InWait
    /\ (caller = "Import" /\ pc # "idle") ~> (ImportSucceeded \/ ImportFailed)

C14_Witness ==
    /\ ImportFailed
    /\ polls = MaxPolls
    /\ timedOut
    /\ ~cancelled
    /\ result.err.cause = "timeout waiting for conditions"


Categories == {"composite", "claim", "managed"}

\* C15: when Import has failed, nothing it did before is undone: every
\* group whose import succeeded is still applied on the target as it was
\* applied (base groups unpaused, remaining groups paused), and the pause
\* marker is removed for exactly the categories whose unpause was called.
C15_NoRollback ==
    ImportFailed =>
      /\ \A a \in 1..Len(log) :
           (log[a].op = "ImportResources" /\ log[a].ok) =>
             [gr |-> log[a].arg, paused |-> log[a].pause, whole |-> TRUE] \in live.applied
      /\ \A c \in Categories :
           (\E u \in live.unpaused : u.category = c)
             <=> (\E a \in 1..Len(log) : log[a].op = "ModifyResources" /\ log[a].arg = c)

C15_Witness ==
    /\ ImportFailed
    /\ result.err.msg = "cannot import resources"
    /\ result.err.about = "widgets.example.io"
    /\ [gr |-> "namespaces", paused |-> FALSE, whole |-> TRUE] \in live.applied
    /\ [gr |-> "widgets.example.io", paused |-> TRUE, whole |-> FALSE] \in live.applied
    /\ live.unpaused = {}


\* The entries of the archive, as a set.
ArchiveEntries == { archive[k] : k \in 1..Len(archive) }

\* The running call extracted the whole archive without error.
ExtractedNow == pc = "pf_read" /\ idx = Len(archive) + 1

\* No two entries of the archive have the same path, and the directory of
\* every entry is an entry listed before it.
DistinctPaths ==
    \A a, b \in 1..Len(archive) : archive[a].path = archive[b].path => a = b
ParentsListedFirst ==
    \A b \in 1..Len(archive) : \A p \in Parents(archive[b].path) :
      \E a \in 1..(b - 1) : archive[a].path = p /\ archive[a].dir

\* C16 as stated: after a successful unarchive of any sequence of directory
\* and regular-file entries the store holds one directory per directory
\* entry and one file per file entry, at the same path and with the same
\* content, and nothing else.
C16_MirrorsAnyArchive ==
    ExtractedNow => (store = ArchiveEntries /\ Cardinality(store) = Len(archive))

\* C16: for an archive whose entries have distinct paths and list every
\* directory before the entries inside it, a successful unarchive leaves
\* the store with exactly one directory per directory entry and one file
\* per file entry at the same path, each file with the content of its
\* entry, and nothing else.
C16_MirrorsWellFormedArchive ==
    (ExtractedNow /\ DistinctPaths /\ ParentsListedFirst) =>
        (store = ArchiveEntries /\ Cardinality(store) = Len(archive))

C16_Witness ==
    /\ ExtractedNow
    /\ DistinctPaths /\ ParentsListedFirst
    /\ Len(archive) = 3
    /\ Entry(<<"widgets.example.io", "w1.yaml">>, FALSE, "w2") \in store
    /\ Entry(<<"export.yaml">>, FALSE, ExportMetaData) \in store


\* Import is past the extract step: importing, waiting or finalizing.
ImportPastExtract ==
    /\ caller = "Import"
    /\ pc \in {"import_base", "wait_start", "wait_maperr", "wait_loop", "wait_sleep", "reset",
               "import_remaining", "unpause_composite", "unpause_claim", "unpause_managed"}

\* C17: whenever Import is past the extract step, the store it reads is the
\* result of an extraction that completed without error, which for the
\* archives of Archives is the set of their entries: never the empty or
\* partly written store a failed unarchive of an earlier call left behind.
C17_ImportReadsExtractedStore ==
    ImportPastExtract => store = ArchiveEntries


\* The error the call returned comes from a cancelled context.
ReturnedCtxError(r) ==
    IF r.call = "Import" THEN r.err.cause = ctxCanceled
    ELSE Len(r.errs) = 1 /\ r.errs[1].cause = ctxCanceled

\* C18: unarchive tests the context before it reads each entry: once the
\* context is cancelled, the loop writes no further directory or file to the
\* store, and the step it takes is the return of the context's error.
C18_CancelledStep ==
    (pc = "unarchive" /\ idx >= 1 /\ cancelled) =>
        /\ store' = store
        /\ (pc' # pc => (pc' = "idle" /\ ReturnedCtxError(result')))
        /\ (pc' = pc => idx' = idx)

C18_CancelStopsExtraction == [][C18_CancelledStep]_vars

C18_Witness ==
    /\ pc = "idle"
    /\ caller = "PreflightChecks"
    /\ cancelled
    /\ ReturnedCtxError(result)
    /\ store # {}
    /\ store # ArchiveEntries
    /\ \A e \in store : e \in ArchiveEntries


\* The store root holds an entry that is neither export.yaml nor a directory.
StrayInRoot ==
    \E e \in store : Len(e.path) = 1 /\ ~e.dir /\ e.path # << "export.yaml" >>

UnexpectedFileMsg == "unexpected file in root directory of exported state"

\* The loop over the listing is at an entry that is not a directory and
\* not export.yaml.
AtStrayEntry ==
    pc = "import_remaining" /\ ~grs[i].dir /\ grs[i].name # "export.yaml"

\* With such an entry in the root, Import does not succeed and never
\* calls an unpause.
C19_NoUnpause ==
    (caller = "Import" /\ StrayInRoot) =>
      /\ ~ImportSucceeded
      /\ pc \notin {"unpause_composite", "unpause_claim", "unpause_managed"}
      /\ \A a \in 1..Len(log) : ~IsUnpause(log[a])

\* The entry is found only in the loop over the listing: by then the twelve
\* base imports, the seven waits, the Reset and the listing have been done,
\* and the groups listed before the entry have been imported, no other.
C19_DetectedLate ==
    (ImportFailed /\ result.err.msg = UnexpectedFileMsg) =>
      /\ result.err.about = grs[i].name
      /\ ~grs[i].dir
      /\ \A k \in 1..Len(baseResources) :
           Cardinality(ImportsOf(baseResources[k], FALSE)) = 1
      /\ \A k \in 1..Len(ExpectedWaits) : WaitsLogged[k] = ExpectedWaitEv(k, TRUE)
      /\ Cardinality(Resets) = 1
      /\ \E a \in 1..Len(log) : log[a] = Ev("ReadDir", "/", FALSE, TRUE)
      /\ \A k \in 1..Len(grs) :
           (grs[k].dir /\ ~isBaseResource(grs[k].name)) =>
             ((k < i) <=> Cardinality(ImportsOf(grs[k].name, TRUE)) = 1)
      /\ \A a \in 1..Len(log) : log[a].op = "ImportResources" => log[a].ok

\* C19: if the store root holds an entry other than export.yaml that is not
\* a directory, Import performs no unpause and does not succeed; when its
\* loop over the listing comes to the entry, the step Import takes (any
\* step but the caller's cancel) is the return of the error that names it;
\* and that happens only in the remaining-import phase, after the base
\* imports, the waits, the cache invalidation and the remaining groups
\* listed before the entry.
C19_StrayRootEntry ==
    /\ [](C19_NoUnpause /\ C19_DetectedLate)
    /\ [][(AtStrayEntry /\ cancelled' = cancelled) =>
            /\ pc' = "idle"
            /\ result'.call = "Import"
            /\ result'.err.msg = UnexpectedFileMsg
            /\ result'.err.about = grs[i].name]_vars

C19_Witness ==
    /\ ImportFailed
    /\ result.err.msg = UnexpectedFileMsg
    /\ result.err.about = "stray.txt"
    /\ Cardinality(ImportsOf("apps.example.io", TRUE)) = 1
    /\ Cardinality(ImportsOf("widgets.example.io", TRUE)) = 0


\* RESTMapping has just failed for the kind of WaitSteps[i]: nothing was
\* polled and no time of the wait has passed.
C20_NothingPolled ==
    pc = "wait_maperr" => (polls = 0 /\ ~timedOut /\ ~success /\ lastPoll = NoPoll)

\* C20: when the resource mapper cannot resolve the kind, the step
\* waitForConditions takes (any step but the caller's cancel) is its return
\* with the mapping error: no poll is made, no timeout is waited for, and
\* Import fails at that wait with the error about the kind.
C20_MappingFailureReturns ==
    /\ []C20_NothingPolled
    /\ [][(pc = "wait_maperr" /\ cancelled' = cancelled) =>
            /\ pc' = "idle"
            /\ result'.call = "Import"
            /\ result'.err.cause = "cannot get REST mapping"
            /\ result'.err.about = WaitSteps[i].kind
            /\ log' = Append(log, WaitEv(WaitSteps[i], FALSE))
            /\ polls' = 0 /\ ~timedOut' /\ lastPoll' = NoPoll]_vars

C20_Witness ==
    /\ ImportFailed
    /\ result.err.cause = "cannot get REST mapping"
    /\ result.err.about = "Provider"
    /\ polls = 0
    /\ WaitsLogged = << ExpectedWaitEv(1, TRUE), ExpectedWaitEv(2, FALSE) >>

====
